---- MODULE Spec2Model ----
(***************************************************************************)
(* Job state machine of the DocTranscribe extraction orchestrators.        *)
(*                                                                         *)
(* Two orchestrators write the same tables (Document, ExtractionJob,       *)
(* ExtractionResult):                                                      *)
(*   - app "service": routers/handwriting.py -> PDFProcessingService       *)
(*     .process_document, which creates the job and spawns                 *)
(*     _process_document_task (services/pdf_service.py);                   *)
(*   - app "worker": main.process_document -> worker.start_processing,     *)
(*     which spawns a thread running worker.process_document_task.         *)
(* main.py does not mount the handwriting router, so a document belongs to *)
(* the application that uploaded it (variable app).                        *)
(*                                                                         *)
(* The variables documents, jobs and results hold COMMITTED rows, i.e.     *)
(* what a reader of the database observes.  One action is the code of a    *)
(* task up to and including its next commit (or its next await of the      *)
(* vision call).                                                           *)
(* Every commit, refresh, file access and rasterization may raise; a       *)
(* raising commit leaves the committed rows unchanged.                     *)
(***************************************************************************)
EXTENDS Integers, Sequences, FiniteSets, TLC

\* ---------------------------------------------------------------- bounds
MaxJobs == 2
MaxPages == 2

\* One document.  Every handler and every task addresses its rows through a
\* single document_id (jobs and results by the job's document_id), and
\* active_jobs is keyed by document id, so documents do not interact.
Docs == {1}

\* default of the max_pages parameter (process_pdf, convert_pdf_to_images)
DefaultMaxPages == 10

VARIABLES
    api_key,      \* the OpenAI credential of the deployment (query parameter
                  \* or OPENAI_API_KEY): "none", "invalid" or "valid"
    app,          \* app[d]: the application the document was uploaded to
    pdf_pages,    \* pdf_pages[d]: number of pages of the stored PDF file
    documents,    \* Document rows: [status, total_pages]
    jobs,         \* ExtractionJob rows, indexed by job id
    results,      \* ExtractionResult rows: results[j] are the rows whose job_id
                  \* is j, in insertion order
    tasks,        \* background tasks (coroutine or thread), one per run
    active_jobs,  \* worker.active_jobs: set of document ids
    registering,  \* document whose start_processing call has started the
                  \* thread but not yet stored the active_jobs entry (0: none)
    reply,        \* what the last main.process_document call returned
    fn_in,        \* arguments of the function call under study (see the
                  \* function specifications below); <<>> in Spec
    fn_out,       \* <<>> before the call, <<value>> once it has returned
    frame         \* local variables of the call under study while it runs
                  \* (loop counter, calls issued, waits); <<>> otherwise

vars == <<api_key, app, pdf_pages, documents, jobs, results, tasks, active_jobs, registering, reply,
          fn_in, fn_out, frame>>

\* the call under study
fn == <<fn_in, fn_out, frame>>

\* the tables and tasks of the orchestrators
db == <<api_key, app, pdf_pages, documents, jobs, results, tasks, active_jobs, registering, reply>>

Min(a, b) == IF a < b THEN a ELSE b

\* ------------------------------------------------------------ rows
\* ExtractionJob(...): pages_processed defaults to 0 and error_message to
\* None (models.py).  error_message is "none" (None), "text" (one of the
\* fixed messages of pdf_service.py:852,865,963) or "exception" (str(e)).
\* confidence_score defaults to None ("none"); "combined" is the value of
\* combined_content["overall_confidence"], which is also the content and
\* the confidence_score of the page-0 row of kind "combined"
NewJob(d, st, tp) ==
    [document_id |-> d, status |-> st, pages_processed |-> 0, total_pages |-> tp,
     error_message |-> "none", confidence_score |-> "none"]

\* kind: "page" for a per-page row; for page 0, "combined" or "error"
NewResult(p, k) == [page_number |-> p, kind |-> k]

\* session.add(row) ... session.commit() for rows of job j
AddRows(j, rows) == [results EXCEPT ![j] = @ \o rows]

NewTask(d, a, pc, j) ==
    [doc |-> d, app |-> a, pc |-> pc, job |-> j,
     n |-> 0,        \* len(images)
     i |-> 0,        \* page whose vision call was issued last
     k |-> 0,        \* raw_results persisted so far (worker loop)
     all_results |-> 0,  \* len(all_results): pages with a truthy result
     errors |-> 0,   \* page results that carry an error key
     staged |-> {}]  \* rows added to the session and not yet committed

JobIds == 1..Len(jobs)
TaskIds == 1..Len(tasks)

\* `x or y` on an Optional[int]: None and 0 are both falsy; None is modelled as 0
OrElse(x, y) == IF x = 0 THEN y ELSE x

\* job rows, plus the worker threads that have not created their job row
Reserved ==
    Len(jobs) + Cardinality({t \in TaskIds : tasks[t].job = 0})

\* except Exception: control moves to the task's handler; the session that
\* held staged rows is dropped
Raise(t) ==
    [tasks[t] EXCEPT !.pc = IF tasks[t].app = "service" THEN "handler" ELSE "w_handler",
                     !.staged = {}]

Goto(t, pc) == [tasks[t] EXCEPT !.pc = pc]

\* the coroutine or thread has returned: its locals are gone
Done(t) == NewTask(tasks[t].doc, tasks[t].app, "done", tasks[t].job)

\* a further run may be started
MayStart == Reserved < MaxJobs

\* The service tasks are coroutines of one event loop (asyncio.create_task,
\* pdf_service.py:818) and every session call is synchronous: a coroutine
\* is suspended only before it starts and while it awaits the vision call.
\* The loop is busy while a coroutine is between two suspension points;
\* its commits on the way are still separate observable states.
LoopBusy ==
    \E t \in TaskIds :
        tasks[t].app = "service" /\ tasks[t].pc \notin {"begin", "vision", "done"}

\* rows a commit writes for the staged "processing failed" pages
StagedRows(t) ==
    LET pages == tasks[t].staged
        RECURSIVE Rows(_)
        Rows(S) == IF S = {} THEN <<>>
                   ELSE LET p == CHOOSE x \in S : \A y \in S : x <= y
                        IN <<NewResult(p, "page")>> \o Rows(S \ {p})
    IN Rows(pages)

\* --------------------------------------------------------------- Init
Init ==
    /\ api_key \in {"none", "invalid", "valid"}
    /\ app \in [Docs -> {"service", "worker"}]
    /\ pdf_pages \in [Docs -> 0..MaxPages]
    \* main.upload_document stores the placeholder total_pages=1;
    \* save_uploaded_file stores the PyPDF2 page count, or leaves None (0)
    \* when counting fails
    /\ documents \in [Docs -> [status : {"pending"}, total_pages : 0..MaxPages]]
    /\ \A d \in Docs :
         IF app[d] = "worker" THEN documents[d].total_pages = 1
         ELSE documents[d].total_pages \in {0, pdf_pages[d]}
    /\ jobs = <<>>
    /\ results = <<>>
    /\ tasks = <<>>
    /\ active_jobs = {}
    /\ registering = 0
    /\ reply = [doc |-> 0, status |-> "none"]
    /\ fn_in = <<>>
    /\ fn_out = <<>>
    /\ frame = <<>>

\* ============================================================ service app
\* _validate_api_key (lines 1130-1160): False without a key; else one GET
\* /v1/models, True on status 200, False on any other status or exception
ValidateApiKey(key) == IF key = "valid" THEN BOOLEAN ELSE {FALSE}

\* PDFProcessingService.process_document: no look-up of an existing job.
\* Nothing is written before the await of _validate_api_key.  The router
\* (handwriting.py:130-166) replies with the returned job's status.
ProcessDocument(d) ==
    /\ app[d] = "service"
    /\ ~LoopBusy
    /\ MayStart
    /\ \E valid \in ValidateApiKey(api_key) :
         IF ~valid
         THEN /\ documents' = [documents EXCEPT ![d].status = "failed"]
              /\ jobs' = Append(jobs, NewJob(d, "failed", documents[d].total_pages))
              /\ results' = Append(results, <<NewResult(0, "error")>>)
              /\ reply' = [doc |-> d, status |-> "failed"]
              /\ UNCHANGED tasks
         ELSE /\ documents' = [documents EXCEPT ![d].status = "processing"]
              /\ jobs' = Append(jobs, NewJob(d, "pending", documents[d].total_pages))
              /\ results' = Append(results, <<>>)
              /\ reply' = [doc |-> d, status |-> "pending"]
              /\ tasks' = Append(tasks, NewTask(d, "service", "begin", Len(jobs) + 1))
    /\ UNCHANGED <<fn, api_key, app, pdf_pages, active_jobs, registering>>

\* variant: the task forgets to mark the job processing
BeginJob_StaysPending(job) == job

\* job.status = "processing" (pdf_service.py:858)
BeginJob(job) == [job EXCEPT !.status = "processing"]

\* lines 834-859: load job and document, mark both processing, commit
SvcBegin(t) ==
    /\ tasks[t].pc = "begin"
    /\ ~LoopBusy
    /\ \E ok \in BOOLEAN :
         IF ok
         THEN /\ documents' = [documents EXCEPT ![tasks[t].doc].status = "processing"]
              /\ jobs' = [jobs EXCEPT ![tasks[t].job] = BeginJob(@)]
              /\ tasks' = [tasks EXCEPT ![t] = Goto(t, "check_file")]
         ELSE /\ tasks' = [tasks EXCEPT ![t] = Raise(t)]
              /\ UNCHANGED <<documents, jobs>>
    /\ UNCHANGED <<fn, api_key, app, pdf_pages, results, active_jobs, registering, reply>>

\* lines 861-868: missing file -> job and document failed, return
SvcCheckFile(t) ==
    /\ tasks[t].pc = "check_file"
    /\ \E exists \in BOOLEAN, ok \in BOOLEAN :
         IF exists
         THEN /\ ok
              /\ tasks' = [tasks EXCEPT ![t] = Goto(t, "convert")]
              /\ UNCHANGED <<documents, jobs>>
         ELSE IF ok
              THEN /\ documents' = [documents EXCEPT ![tasks[t].doc].status = "failed"]
                   /\ jobs' = [jobs EXCEPT ![tasks[t].job].status = "failed",
                                            ![tasks[t].job].error_message = "text"]
                   /\ tasks' = [tasks EXCEPT ![t] = Done(t)]
              ELSE /\ tasks' = [tasks EXCEPT ![t] = Raise(t)]
                   /\ UNCHANGED <<documents, jobs>>
    /\ UNCHANGED <<fn, api_key, app, pdf_pages, results, active_jobs, registering, reply>>

\* convert_pdf_to_images(pdf_path, max_pages): first_page=1, last_page=max_pages
Rasterize(pages, max_pages) == Min(pages, max_pages)

\* variant: total_pages is never reconciled with the rasterized pages
NeedsTotalUpdate_Never(job, n) == FALSE

\* `if not job.total_pages or job.total_pages != len(images)` (line 875)
NeedsTotalUpdate(job, n) == job.total_pages = 0 \/ job.total_pages # n

\* lines 870-879: rasterize, rewrite total_pages to len(images), commit
SvcConvert(t) ==
    /\ tasks[t].pc = "convert"
    /\ LET j == tasks[t].job
           d == tasks[t].doc
           n == Rasterize(pdf_pages[d], OrElse(jobs[j].total_pages, DefaultMaxPages))
       IN \E ok \in BOOLEAN :
            IF ok
            THEN /\ IF NeedsTotalUpdate(jobs[j], n)
                    THEN /\ jobs' = [jobs EXCEPT ![j].total_pages = n]
                         /\ documents' = [documents EXCEPT ![d].total_pages = n]
                    ELSE UNCHANGED <<jobs, documents>>
                 /\ tasks' = [tasks EXCEPT ![t] = [Goto(t, "call") EXCEPT !.n = n]]
            ELSE /\ tasks' = [tasks EXCEPT ![t] = Raise(t)]
                 /\ UNCHANGED <<jobs, documents>>
    /\ UNCHANGED <<fn, api_key, app, pdf_pages, results, active_jobs, registering, reply>>

\* the loop `for i, img in enumerate(images)` continues, or ends
AfterPage(i, n) == IF i < n THEN "call" ELSE "finish"

\* lines 887-893: the vision call for the next page is issued
SvcCall(t) ==
    /\ tasks[t].pc = "call"
    /\ tasks' = [tasks EXCEPT ![t] =
                   IF tasks[t].i < tasks[t].n
                   THEN [Goto(t, "vision") EXCEPT !.i = @ + 1]
                   ELSE Goto(t, "finish")]
    /\ UNCHANGED <<fn, api_key, app, pdf_pages, documents, jobs, results, active_jobs, registering, reply>>

\* 1 when the page result has an "error" key
HasError(o) == IF o = "error" THEN 1 ELSE 0

\* job.pages_processed = page_num (line 930)
PageProgress(job, page_num) == [job EXCEPT !.pages_processed = page_num]

\* lines 893-957: process_image returned (or raised, in encode_image_to_base64).
\*   "ok"    a parsed non-empty dict without an error key
\*   "error" one of process_image's error dicts (non-empty, so truthy)
\*   "empty" the parsed response is {} (falsy): the else branch adds a row
\*           to the session and neither commits nor updates the progress
SvcPage(t) ==
    /\ tasks[t].pc = "vision"
    /\ ~LoopBusy
    /\ LET j == tasks[t].job
           i == tasks[t].i
           next == AfterPage(i, tasks[t].n)
       IN \E o \in {"ok", "error", "empty", "raise"}, ok \in BOOLEAN :
            CASE o = "raise" ->
                   /\ ok
                   /\ tasks' = [tasks EXCEPT ![t] = Raise(t)]
                   /\ UNCHANGED <<jobs, results>>
              [] o = "empty" ->
                   /\ ok
                   /\ tasks' = [tasks EXCEPT ![t] =
                                  [Goto(t, next) EXCEPT !.staged = @ \cup {i}]]
                   /\ UNCHANGED <<jobs, results>>
              [] OTHER ->
                   IF ok
                   THEN /\ results' = AddRows(j, StagedRows(t) \o <<NewResult(i, "page")>>)
                        /\ jobs' = [jobs EXCEPT ![j] = PageProgress(@, i)]
                        /\ tasks' = [tasks EXCEPT ![t] =
                                       [Goto(t, next) EXCEPT !.all_results = @ + 1,
                                                             !.errors = @ + HasError(o),
                                                             !.staged = {}]]
                   ELSE /\ tasks' = [tasks EXCEPT ![t] = Raise(t)]
                        /\ UNCHANGED <<jobs, results>>
    /\ UNCHANGED <<fn, api_key, app, pdf_pages, documents, active_jobs, registering, reply>>

\* `if not all_results` (line 960)
NoSuccessfulResults(task) == task.all_results = 0

\* lines 959-1063: no usable page -> failed; else add the page-0 combined
\* row and commit it together with job.confidence_score
SvcFinish(t) ==
    /\ tasks[t].pc = "finish"
    /\ LET j == tasks[t].job
           d == tasks[t].doc
       IN \E ok \in BOOLEAN :
            IF ~ok
            THEN /\ tasks' = [tasks EXCEPT ![t] = Raise(t)]
                 /\ UNCHANGED <<documents, jobs, results>>
            ELSE IF NoSuccessfulResults(tasks[t])
            THEN /\ jobs' = [jobs EXCEPT ![j].status = "failed",
                                          ![j].error_message = "text"]
                 /\ documents' = [documents EXCEPT ![d].status = "failed"]
                 /\ results' = AddRows(j, StagedRows(t))
                 /\ tasks' = [tasks EXCEPT ![t] = Done(t)]
            ELSE /\ results' = AddRows(j, StagedRows(t) \o <<NewResult(0, "combined")>>)
                 /\ jobs' = [jobs EXCEPT ![j].confidence_score = "combined"]   \* 1062
                 /\ tasks' = [tasks EXCEPT ![t] = [Goto(t, "complete") EXCEPT !.staged = {}]]
                 /\ UNCHANGED documents
    /\ UNCHANGED <<fn, api_key, app, pdf_pages, active_jobs, registering, reply>>

\* variant: completion resets the progress counter
FinalizeJob_ResetsProgress(job, n) == [job EXCEPT !.status = "completed", !.pages_processed = 0]

\* lines 1066-1068: job.status = "completed"; job.pages_processed = len(images)
FinalizeJob(job, n) == [job EXCEPT !.status = "completed", !.pages_processed = n]

\* lines 1065-1073: job and document completed, one commit
SvcComplete(t) ==
    /\ tasks[t].pc = "complete"
    /\ \E ok \in BOOLEAN :
         IF ok
         THEN /\ jobs' = [jobs EXCEPT ![tasks[t].job] = FinalizeJob(@, tasks[t].n)]
              /\ documents' = [documents EXCEPT ![tasks[t].doc].status = "completed"]
              /\ tasks' = [tasks EXCEPT ![t] = Goto(t, "refresh")]
         ELSE /\ tasks' = [tasks EXCEPT ![t] = Raise(t)]
              /\ UNCHANGED <<jobs, documents>>
    /\ UNCHANGED <<fn, api_key, app, pdf_pages, results, active_jobs, registering, reply>>

\* lines 1074-1078: session.refresh(job), session.refresh(document), still
\* inside the try block
SvcRefresh(t) ==
    /\ tasks[t].pc = "refresh"
    /\ \E ok \in BOOLEAN :
         tasks' = [tasks EXCEPT ![t] = IF ok THEN Done(t) ELSE Raise(t)]
    /\ UNCHANGED <<fn, api_key, app, pdf_pages, documents, jobs, results, active_jobs, registering, reply>>

\* job.status = "failed"; job.error_message = str(e) (lines 1090-1091)
FailJob(job) == [job EXCEPT !.status = "failed", !.error_message = "exception"]

\* lines 1080-1101: the handler loads the job by id, whatever its status,
\* and marks it and its document failed; a raise inside is swallowed by
\* the inner except
SvcHandler(t) ==
    /\ tasks[t].pc = "handler"
    /\ \E ok \in BOOLEAN :
         IF ok
         THEN /\ jobs' = [jobs EXCEPT ![tasks[t].job] = FailJob(@)]
              /\ documents' = [documents EXCEPT ![tasks[t].doc].status = "failed"]
              /\ tasks' = [tasks EXCEPT ![t] = Goto(t, "handler_result")]
         ELSE /\ tasks' = [tasks EXCEPT ![t] = Done(t)]
              /\ UNCHANGED <<jobs, documents>>
    /\ UNCHANGED <<fn, api_key, app, pdf_pages, results, active_jobs, registering, reply>>

\* lines 1103-1128: the handler adds a page-0 error row, second commit
SvcHandlerResult(t) ==
    /\ tasks[t].pc = "handler_result"
    /\ \E ok \in BOOLEAN :
         IF ok
         THEN results' = AddRows(tasks[t].job, <<NewResult(0, "error")>>)
         ELSE UNCHANGED results
    /\ tasks' = [tasks EXCEPT ![t] = Done(t)]
    /\ UNCHANGED <<fn, api_key, app, pdf_pages, documents, jobs, active_jobs, registering, reply>>

\* ============================================================= worker app
\* the PROCESSING jobs of a document
ProcessingJobs(d) ==
    {j \in JobIds : jobs[j].document_id = d /\ jobs[j].status = "processing"}

\* main.process_document, and start_processing up to thread.start().
\* The endpoint is a coroutine without an await: two calls never interleave,
\* but the started thread runs concurrently with the rest of the call.
SubmitWorker(d) ==
    /\ app[d] = "worker"
    /\ registering = 0
    /\ IF documents[d].status = "processing" /\ ProcessingJobs(d) # {}
       THEN /\ reply' = [doc |-> d, status |-> "already_processing"]
            /\ UNCHANGED <<tasks, registering>>
       ELSE IF d \in active_jobs
       THEN /\ reply' = [doc |-> d, status |-> "already_processing"]
            /\ UNCHANGED <<tasks, registering>>
       ELSE /\ MayStart
            /\ tasks' = Append(tasks, NewTask(d, "worker", "w_start", 0))
            /\ registering' = d
            /\ UNCHANGED reply
    /\ UNCHANGED <<fn, api_key, app, pdf_pages, documents, jobs, results, active_jobs>>

\* start_processing lines 239-246: the entry is stored after thread.start()
RegisterActive ==
    /\ registering # 0
    /\ active_jobs' = active_jobs \cup {registering}
    /\ reply' = [doc |-> registering, status |-> "processing_started"]
    /\ registering' = 0
    /\ UNCHANGED <<fn, api_key, app, pdf_pages, documents, jobs, results, tasks>>

\* worker.py lines 38-54: the job is created in PROCESSING, commit
WStart(t) ==
    /\ tasks[t].pc = "w_start"
    /\ \E ok \in BOOLEAN :
         IF ok
         THEN /\ jobs' = Append(jobs, NewJob(tasks[t].doc, "processing",
                                             OrElse(documents[tasks[t].doc].total_pages, 1)))
              /\ results' = Append(results, <<>>)
              /\ tasks' = [tasks EXCEPT ![t] = [Goto(t, "w_docstatus") EXCEPT !.job = Len(jobs) + 1]]
         ELSE /\ tasks' = [tasks EXCEPT ![t] = Raise(t)]
              /\ UNCHANGED <<jobs, results>>
    /\ UNCHANGED <<fn, api_key, app, pdf_pages, documents, active_jobs, registering, reply>>

\* lines 59-62: the document is marked PROCESSING in a second commit
WDocStatus(t) ==
    /\ tasks[t].pc = "w_docstatus"
    /\ \E ok \in BOOLEAN :
         IF ok
         THEN /\ documents' = [documents EXCEPT ![tasks[t].doc].status = "processing"]
              /\ tasks' = [tasks EXCEPT ![t] = Goto(t, "w_read")]
         ELSE /\ tasks' = [tasks EXCEPT ![t] = Raise(t)]
              /\ UNCHANGED documents
    /\ UNCHANGED <<fn, api_key, app, pdf_pages, jobs, results, active_jobs, registering, reply>>

\* lines 64-111 and process_pdf lines 72-83: file look-up, API key (line
\* 106: ValueError when OPENAI_API_KEY is not set), and rasterization with
\* the default max_pages; any of them may raise
WReadPdf(t) ==
    /\ tasks[t].pc = "w_read"
    /\ \E ok \in IF api_key = "none" THEN {FALSE} ELSE BOOLEAN :
         tasks' = [tasks EXCEPT ![t] =
                     IF ok
                     THEN LET n == Rasterize(pdf_pages[tasks[t].doc], DefaultMaxPages)
                          IN [Goto(t, IF n > 0 THEN "w_call" ELSE "w_total") EXCEPT !.n = n]
                     ELSE Raise(t)]
    /\ UNCHANGED <<fn, api_key, app, pdf_pages, documents, jobs, results, active_jobs, registering, reply>>

\* process_pdf lines 87-89: the vision call for the next page is issued
WCall(t) ==
    /\ tasks[t].pc = "w_call"
    /\ tasks' = [tasks EXCEPT ![t] = [Goto(t, "w_vision") EXCEPT !.i = @ + 1]]
    /\ UNCHANGED <<fn, api_key, app, pdf_pages, documents, jobs, results, active_jobs, registering, reply>>

\* process_pdf line 90: _process_image returned a page result ("error": the
\* dict of lines 259-264, after the retries); nothing is persisted here
WVision(t) ==
    /\ tasks[t].pc = "w_vision"
    /\ \E o \in IF api_key = "valid" THEN {"ok", "error"} ELSE {"error"} :
         tasks' = [tasks EXCEPT ![t] =
                     [Goto(t, IF tasks[t].i < tasks[t].n THEN "w_call" ELSE "w_total")
                        EXCEPT !.errors = @ + HasError(o)]]
    /\ UNCHANGED <<fn, api_key, app, pdf_pages, documents, jobs, results, active_jobs, registering, reply>>

\* the loop over raw_results runs, or is empty
AfterTotals(n) == IF n > 0 THEN "w_persist" ELSE "w_complete"

\* lines 118-123: `if document.total_pages != total_pages`, first commit
WTotalDoc(t) ==
    /\ tasks[t].pc = "w_total"
    /\ LET d == tasks[t].doc
           n == tasks[t].n
       IN IF documents[d].total_pages # n
          THEN \E ok \in BOOLEAN :
                 IF ok
                 THEN /\ documents' = [documents EXCEPT ![d].total_pages = n]
                      /\ tasks' = [tasks EXCEPT ![t] = Goto(t, "w_total_job")]
                 ELSE /\ tasks' = [tasks EXCEPT ![t] = Raise(t)]
                      /\ UNCHANGED documents
          ELSE /\ tasks' = [tasks EXCEPT ![t] = Goto(t, AfterTotals(n))]
               /\ UNCHANGED documents
    /\ UNCHANGED <<fn, api_key, app, pdf_pages, jobs, results, active_jobs, registering, reply>>

\* lines 125-128: job.total_pages = total_pages, second commit
WTotalJob(t) ==
    /\ tasks[t].pc = "w_total_job"
    /\ \E ok \in BOOLEAN :
         IF ok
         THEN /\ jobs' = [jobs EXCEPT ![tasks[t].job].total_pages = tasks[t].n]
              /\ tasks' = [tasks EXCEPT ![t] = Goto(t, AfterTotals(tasks[t].n))]
         ELSE /\ tasks' = [tasks EXCEPT ![t] = Raise(t)]
              /\ UNCHANGED jobs
    /\ UNCHANGED <<fn, api_key, app, pdf_pages, documents, results, active_jobs, registering, reply>>

\* lines 130-155: one raw result is stored and the progress set, commit
WPersist(t) ==
    /\ tasks[t].pc = "w_persist"
    /\ LET j == tasks[t].job
           page_number == tasks[t].k + 1
       IN \E ok \in BOOLEAN :
            IF ok
            THEN /\ results' = AddRows(j, <<NewResult(page_number, "page")>>)
                 /\ jobs' = [jobs EXCEPT ![j] = PageProgress(@, page_number)]
                 /\ tasks' = [tasks EXCEPT ![t] =
                                [Goto(t, IF page_number < tasks[t].n THEN "w_persist" ELSE "w_complete")
                                   EXCEPT !.k = page_number]]
            ELSE /\ tasks' = [tasks EXCEPT ![t] = Raise(t)]
                 /\ UNCHANGED <<results, jobs>>
    /\ UNCHANGED <<fn, api_key, app, pdf_pages, documents, active_jobs, registering, reply>>

\* lines 157-165: job and document COMPLETED, one commit; no page-0 row
WComplete(t) ==
    /\ tasks[t].pc = "w_complete"
    /\ \E ok \in BOOLEAN :
         IF ok
         THEN /\ jobs' = [jobs EXCEPT ![tasks[t].job].status = "completed"]
              /\ documents' = [documents EXCEPT ![tasks[t].doc].status = "completed"]
              /\ tasks' = [tasks EXCEPT ![t] = Goto(t, "w_finally")]
         ELSE /\ tasks' = [tasks EXCEPT ![t] = Raise(t)]
              /\ UNCHANGED <<jobs, documents>>
    /\ UNCHANGED <<fn, api_key, app, pdf_pages, results, active_jobs, registering, reply>>

\* the job the handler's query returns: `.first()` of the PROCESSING jobs
\* of the document (no ORDER BY), or None
HandlerJobs(d) == IF ProcessingJobs(d) = {} THEN {0} ELSE ProcessingJobs(d)

\* lines 169-194: document FAILED, the first PROCESSING job of the document
\* FAILED, one commit; a raise inside is swallowed
WHandler(t) ==
    /\ tasks[t].pc = "w_handler"
    /\ \E ok \in BOOLEAN :
         IF ok
         THEN /\ documents' = [documents EXCEPT ![tasks[t].doc].status = "failed"]
              /\ \E j \in HandlerJobs(tasks[t].doc) :
                   jobs' = IF j = 0 THEN jobs ELSE [jobs EXCEPT ![j].status = "failed"]
         ELSE UNCHANGED <<documents, jobs>>
    /\ tasks' = [tasks EXCEPT ![t] = Goto(t, "w_finally")]
    /\ UNCHANGED <<fn, api_key, app, pdf_pages, results, active_jobs, registering, reply>>

\* lines 195-201: finally: the active_jobs entry is deleted if present
WFinally(t) ==
    /\ tasks[t].pc = "w_finally"
    /\ active_jobs' = active_jobs \ {tasks[t].doc}
    /\ tasks' = [tasks EXCEPT ![t] = Done(t)]
    /\ UNCHANGED <<fn, api_key, app, pdf_pages, documents, jobs, results, registering, reply>>

\* ================================================================== Next
Next ==
    \/ \E d \in Docs : ProcessDocument(d)
    \/ \E t \in TaskIds : SvcBegin(t)
    \/ \E t \in TaskIds : SvcCheckFile(t)
    \/ \E t \in TaskIds : SvcConvert(t)
    \/ \E t \in TaskIds : SvcCall(t)
    \/ \E t \in TaskIds : SvcPage(t)
    \/ \E t \in TaskIds : SvcFinish(t)
    \/ \E t \in TaskIds : SvcComplete(t)
    \/ \E t \in TaskIds : SvcRefresh(t)
    \/ \E t \in TaskIds : SvcHandler(t)
    \/ \E t \in TaskIds : SvcHandlerResult(t)
    \/ \E d \in Docs : SubmitWorker(d)
    \/ RegisterActive
    \/ \E t \in TaskIds : WStart(t)
    \/ \E t \in TaskIds : WDocStatus(t)
    \/ \E t \in TaskIds : WReadPdf(t)
    \/ \E t \in TaskIds : WCall(t)
    \/ \E t \in TaskIds : WVision(t)
    \/ \E t \in TaskIds : WTotalDoc(t)
    \/ \E t \in TaskIds : WTotalJob(t)
    \/ \E t \in TaskIds : WPersist(t)
    \/ \E t \in TaskIds : WComplete(t)
    \/ \E t \in TaskIds : WHandler(t)
    \/ \E t \in TaskIds : WFinally(t)

Spec == Init /\ [][Next]_vars

\* ================================================================ claims
Terminal == {"completed", "failed"}

\* rows of a job
PageZeroRows(j) ==
    {x \in 1..Len(results[j]) : results[j][x].page_number = 0}

HasPageRow(j, p) ==
    \E x \in 1..Len(results[j]) : results[j][x].page_number = p

\* C1: once a job's committed status is completed or failed, no step of any
\* run (handlers included) changes it.
C1_TerminalFinal ==
    [][\A j \in JobIds :
         jobs[j].status \in Terminal => jobs'[j].status = jobs[j].status]_vars

\* C2: no document ever has two jobs in processing at the same time.
C2_AtMostOneProcessing ==
    \A d \in Docs : Cardinality(ProcessingJobs(d)) <= 1

\* C3: a run that has ended, whatever raised on its way, has not left its
\* job in processing.
C3_NoJobStuck ==
    \A t \in TaskIds :
        (tasks[t].pc = "done" /\ tasks[t].job # 0)
            => jobs[tasks[t].job].status # "processing"

\* C4: a job that has left pending never returns to it, a job becomes
\* completed only from processing, and no job is created completed.
C4_Monotonic ==
    [][/\ \A j \in JobIds :
            /\ jobs[j].status # "pending" => jobs'[j].status # "pending"
            /\ (jobs'[j].status = "completed" /\ jobs[j].status # "completed")
                   => jobs[j].status = "processing"
       /\ \A j \in (1..Len(jobs')) \ JobIds : jobs'[j].status # "completed"]_vars

\* C4 witness: a job has gone all the way to completed.
C4_Witness ==
    \E j \in JobIds : jobs[j].status = "completed" /\ jobs[j].pages_processed > 0

\* C5: the committed pages_processed of a job never decreases from one
\* observable state to the next.
C5_ProgressNonDecreasing ==
    [][\A j \in JobIds :
         jobs'[j].pages_processed >= jobs[j].pages_processed]_vars

\* C5 witness: a completed job whose progress was raised page by page and
\* then written again by the completion step.
C5_Witness ==
    \E t \in TaskIds :
        /\ tasks[t].app = "service" /\ tasks[t].pc = "refresh" /\ tasks[t].n >= 2
        /\ jobs[tasks[t].job].status = "completed"
        /\ jobs[tasks[t].job].pages_processed = tasks[t].n

\* C6: in every committed state pages_processed <= total_pages.
C6_ProgressBounded ==
    \A j \in JobIds : jobs[j].pages_processed <= jobs[j].total_pages

\* C6 witness: a job whose total_pages was rewritten to the rasterized page
\* count (it differs from what the upload stored) and that has progressed.
C6_Witness ==
    \E t \in TaskIds :
        /\ tasks[t].job = 1
        /\ tasks[t].pc \in {"call", "vision", "finish", "w_persist", "w_complete"}
        /\ jobs[1].total_pages = tasks[t].n
        /\ jobs[1].total_pages >= 2
        /\ jobs[1].pages_processed >= 1

\* C7: pages_processed = total_pages exactly for the completed jobs.
C7_EqualExactlyWhenCompleted ==
    \A j \in JobIds :
        (jobs[j].status = "completed") <=> (jobs[j].pages_processed = jobs[j].total_pages)

\* C8: a job all of whose pages returned an error result is not completed.
C8_AllErrorsFail ==
    \A t \in TaskIds :
        (/\ tasks[t].job # 0
         /\ tasks[t].n > 0
         /\ tasks[t].errors = tasks[t].n)
            => jobs[tasks[t].job].status # "completed"

\* C9: while the vision call of page k+1 is in flight, the rows of pages
\* 1..k and pages_processed = k are committed.
C9_DurableBeforeNextCall ==
    \A t \in TaskIds :
        tasks[t].pc \in {"vision", "w_vision"}
            => /\ jobs[tasks[t].job].pages_processed = tasks[t].i - 1
               /\ \A p \in 1..(tasks[t].i - 1) : HasPageRow(tasks[t].job, p)

\* C10: a job has at most one page-0 row, a completed job has exactly one,
\* and a combined row exists only with a row for every page 1..total_pages.
C10_OneCombinedRow ==
    \A j \in JobIds :
        /\ Cardinality(PageZeroRows(j)) <= 1
        /\ jobs[j].status = "completed" => Cardinality(PageZeroRows(j)) = 1
        /\ (\E x \in PageZeroRows(j) : results[j][x].kind = "combined")
              => \A p \in 1..jobs[j].total_pages : HasPageRow(j, p)

\* C11: when the top-level handler of a run has run, the run's job and its
\* document are failed and the job's error_message is the exception text.
\* (Both handlers end the task normally: nothing is propagated.)
C11_ExceptionFailsRun ==
    [][\A t \in TaskIds :
         (tasks[t].pc \in {"handler", "w_handler"} /\ tasks'[t].pc # tasks[t].pc)
            => /\ documents'[tasks[t].doc].status = "failed"
               /\ tasks[t].job # 0
                    => /\ jobs'[tasks[t].job].status = "failed"
                       /\ jobs'[tasks[t].job].error_message = "exception"]_vars

\* a task that has rasterized the PDF (it holds len(images)) or is past it
Rasterized ==
    {"call", "vision", "finish", "complete", "refresh",
     "w_call", "w_vision", "w_total", "w_total_job", "w_persist", "w_complete"}

\* C13: without credentials no run rasterizes a page or issues a vision
\* call, and no submit is answered as started: the caller gets a failure.
C13_NoCredentialsFailFast ==
    api_key = "none" =>
        /\ \A t \in TaskIds : tasks[t].pc \notin Rasterized
        /\ reply.status \notin {"pending", "processing_started"}

\* C14: a submit whose credential validation fails starts no task (so no
\* vision call), and the result row of its job is the output of the
\* fallback extraction (kind "fallback").
C14_FailedValidationUsesFallback ==
    [][\A j \in 1..Len(jobs') :
         (j > Len(jobs) /\ jobs'[j].status = "failed")
            => /\ \A t \in 1..Len(tasks') : tasks'[t].job # j
               /\ \E x \in 1..Len(results'[j]) : results'[j][x].kind = "fallback"]_vars

\* C28: in every committed state a completed job has a confidence_score
\* that is not null and is the overall_confidence of its page-0 combined
\* row.
C28_CompletedJobHasConfidence ==
    \A j \in JobIds :
        jobs[j].status = "completed" =>
            /\ jobs[j].confidence_score # "none"
            /\ \E x \in PageZeroRows(j) :
                  /\ results[j][x].kind = "combined"
                  /\ jobs[j].confidence_score = "combined"

\* C29: in every committed state a job whose status is processing belongs
\* to a document whose status is processing, also when the document has
\* more than one job.
C29_JobAndDocumentCoherent ==
    \A j \in JobIds :
        jobs[j].status = "processing"
            => documents[jobs[j].document_id].status = "processing"

\* the background threads of document d that have not finished
RunningThreads(d) ==
    {t \in TaskIds : tasks[t].doc = d /\ tasks[t].app = "worker" /\ tasks[t].pc # "done"}

\* C30: once start_processing has returned and every background thread of
\* a document has ended, worker.active_jobs has no entry for the document
\* (so the next start_processing for it starts a thread and returns True).
C30_NoStaleActiveJob ==
    \A d \in Docs :
        (registering # d /\ RunningThreads(d) = {}) => d \notin active_jobs

\* ------------------------------------------------ reading the results
\* `.order_by(ExtractionResult.page_number)` (pdf_service.py:458-462): the
\* rows of pages p, p+1, ... in that order
RECURSIVE OrderByPage(_, _)
OrderByPage(rows, p) ==
    IF \A x \in 1..Len(rows) : rows[x].page_number < p THEN <<>>
    ELSE SelectSeq(rows, LAMBDA r : r.page_number = p) \o OrderByPage(rows, p + 1)

\* What get_job_results answers for a stored job when no statement raises
\* (pdf_service.py:456-583).  Kinds of the page-0 record of the answer:
\*   the stored row's kind when the job has one;
\*   "synthetic"  built from the page rows (lines 471-519) or the fixed
\*                "Processing Completed" record (lines 539-566): no error key;
\*   "status"     the "pending-" record of lines 567-588: a status key, no
\*                error key.
StoredResults(j) ==
    IF results[j] # <<>>
    THEN IF PageZeroRows(j) = {}
         THEN OrderByPage(results[j], 0) \o <<NewResult(0, "synthetic")>>
         ELSE OrderByPage(results[j], 0)
    ELSE IF jobs[j].status = "completed"
         THEN <<NewResult(0, "synthetic")>>
         ELSE <<NewResult(0, "status")>>

\* The answers get_job_results can give for stored job j: the one above,
\* or, when a statement raised (a session that fails), the "System Error"
\* record of the outer handler (lines 622-645).  Every path returns.
get_job_results(j) == {StoredResults(j), <<NewResult(0, "error")>>}

\* C19: for every failed job, with or without stored rows, every answer of
\* get_job_results contains a page-0 record whose content carries an error
\* key.
C19_FailedJobGetsErrorRecord ==
    \A j \in JobIds :
        jobs[j].status = "failed" =>
            \A answer \in get_job_results(j) :
                \E x \in 1..Len(answer) :
                    /\ answer[x].page_number = 0
                    /\ answer[x].kind = "error"

\* ==================================================== function calls
\* The specifications below study one function call each: Init draws the
\* arguments (fn_in), the action applies the function and stores what it
\* returned (fn_out).  The tables stay empty.
DbEmpty ==
    /\ api_key = "valid"
    /\ app = [d \in Docs |-> "service"]
    /\ pdf_pages = [d \in Docs |-> 0]
    /\ documents = [d \in Docs |-> [status |-> "pending", total_pages |-> 0]]
    /\ jobs = <<>>
    /\ results = <<>>
    /\ tasks = <<>>
    /\ active_jobs = {}
    /\ registering = 0
    /\ reply = [doc |-> 0, status |-> "none"]

Returned == Len(fn_out) = 1

\* ------------------------------------------- the per-page extraction call
\* self.max_retries (openai_service.py:27)
max_retries == 3

\* what json.loads makes of a text: "invalid" (JSONDecodeError), a
\* non-empty dict, {} or a value that is not a dict (list, number, null)
Parsed == {"invalid", "dict", "empty_dict", "scalar"}

\* The body of a chat completion, by what the parsing code looks at:
\*   whole       json.loads(content); "none" when message.content is None
\*   json_marker "```json" in content
\*   marker      "```" in content
\*   inner       json.loads of the text between the first marker and the
\*               next "```"
\*   fixed       "no" unless content.strip() starts with "{" and does not
\*               end with "}"; else json.loads(content.strip() + "}")
Bodies ==
    {b \in [whole : Parsed \cup {"none"}, json_marker : BOOLEAN, marker : BOOLEAN,
            inner : Parsed, fixed : Parsed \cup {"no"}] :
        /\ b.json_marker => b.marker
        /\ b.whole = "none" => (~b.marker /\ b.inner = "invalid" /\ b.fixed = "no")
        /\ ~b.marker => b.inner = "invalid"
        /\ (b.marker \/ b.whole # "invalid") => b.fixed = "no"}

\* outcome of one chat.completions.create call: a response, a time-out, a
\* 5xx answer ("http_error") or a 4xx answer such as 401 ("auth_error");
\* the last three are exceptions of the client
CallOutcomes == {"response", "timeout", "http_error", "auth_error"}

\* A page result, by what its callers look at:
\*   raised            the call raised instead of returning
\*   error             the returned dict has an "error" key
\*   falsy             the returned dict is {}
\*   confidence_score  what the caller stores on the ExtractionResult row
\*                     ("model": a value taken from the response)
PageResult(raised, error, falsy, score) ==
    [raised |-> raised, error |-> error, falsy |-> falsy, confidence_score |-> score]

\* pdf_service.py:921-925 and 955: the row's confidence_score is 0.0 when
\* result["error"] is a string and for the {} result of the else branch
ServiceScore(error, falsy) == IF error \/ falsy THEN "0.0" ELSE "model"

\* process_image lines 1303-1357: the code after a successful parse; a
\* value that is not a dict raises in it and ends in the error dict of
\* lines 1358-1375
AfterParse(p) ==
    CASE p = "dict" -> PageResult(FALSE, FALSE, FALSE, ServiceScore(FALSE, FALSE))
      [] p = "empty_dict" -> PageResult(FALSE, FALSE, TRUE, ServiceScore(FALSE, TRUE))
      [] OTHER -> PageResult(FALSE, TRUE, FALSE, ServiceScore(TRUE, FALSE))

\* one of process_image's error dicts
ErrorDict == PageResult(FALSE, TRUE, FALSE, ServiceScore(TRUE, FALSE))

\* pdf_service.process_image (lines 1220-1385)
process_image(a) ==
    IF ~a.api_key THEN ErrorDict                                \* 1234-1244
    ELSE IF ~a.image_ok THEN PageResult(TRUE, FALSE, FALSE, "0.0")  \* 1247, outside the try
    ELSE IF a.calls[1] # "response" THEN ErrorDict              \* 1376-1385
    ELSE IF a.body.whole = "none" THEN ErrorDict                \* content[:100], 1376
    ELSE IF a.body.marker                                       \* 1283-1289
         THEN IF a.body.inner = "invalid" THEN ErrorDict        \* 1358
              ELSE AfterParse(a.body.inner)
    ELSE IF a.body.whole # "invalid" THEN AfterParse(a.body.whole)   \* 1293
    ELSE IF a.body.fixed \in {"no", "invalid"} THEN ErrorDict   \* 1303-1340
    ELSE AfterParse(a.body.fixed)

\* worker.py:141-147: the row's confidence_score is the literal 0.9
WorkerScore == "0.9"

\* OpenAIService._process_image, one attempt (lines 210-250):
\* "retry" stands for the except branch of lines 252-264
Attempt(a, n) ==
    IF ~a.api_key THEN "retry"                                  \* 211-212
    ELSE IF a.calls[n] # "response" THEN "retry"
    ELSE IF a.body.whole = "none" THEN "retry"                  \* json.loads(None)
    ELSE IF a.body.whole # "invalid" THEN "return"              \* 230
    ELSE IF a.body.marker                                       \* 233-238
         THEN IF a.body.inner = "invalid" THEN "retry" ELSE "return"
    ELSE "return"                                               \* 239-241: raw_text

\* OpenAIService._process_image (lines 140-264), from attempt n on
RECURSIVE OpenAI_process_image(_, _)
OpenAI_process_image(a, n) ==
    IF n > max_retries THEN PageResult(FALSE, FALSE, TRUE, WorkerScore)   \* falls off the loop
    ELSE IF Attempt(a, n) = "return" THEN PageResult(FALSE, FALSE, FALSE, WorkerScore)
    ELSE IF n < max_retries THEN OpenAI_process_image(a, n + 1)
    ELSE PageResult(FALSE, TRUE, FALSE, WorkerScore)             \* 259-264

ImageArgs ==
    [function : {"process_image", "_process_image"}, api_key : BOOLEAN,
     image_ok : BOOLEAN, calls : [1..max_retries -> CallOutcomes], body : Bodies]

InitImage ==
    /\ DbEmpty
    /\ fn_in \in ImageArgs
    /\ fn_in.function = "_process_image" => fn_in.image_ok
    /\ fn_in.function = "process_image"
         => \A n \in 2..max_retries : fn_in.calls[n] = fn_in.calls[1]
    /\ fn_out = <<>>
    /\ frame = <<>>

CallImage ==
    /\ ~Returned
    /\ fn_out' = <<IF fn_in.function = "process_image"
                   THEN process_image(fn_in)
                   ELSE OpenAI_process_image(fn_in, 1)>>
    /\ UNCHANGED <<db, fn_in, frame>>

SpecImage == InitImage /\ [][CallImage]_vars

\* the vision call of the last attempt was issued
LastCall(a) == IF a.function = "process_image" THEN 1 ELSE max_retries

\* the single-page failures: the call timed out or answered with an HTTP
\* error (on every attempt), the body is neither JSON nor fenced, or the
\* body is not JSON and its fenced block is not JSON either
PageFailed(a) ==
    /\ a.api_key
    /\ a.image_ok
    /\ \/ \A n \in 1..LastCall(a) : a.calls[n] # "response"
       \/ /\ \A n \in 1..LastCall(a) : a.calls[n] = "response"
          /\ a.body.whole = "invalid"
          /\ a.body.inner = "invalid"
          /\ a.body.fixed \in {"no", "invalid"}

\* C12: for a single-page failure the call returns (does not raise) a page
\* result with an error key, stored with confidence 0; and no outcome of
\* the vision call makes it raise.
C12_PageCallNeverRaises ==
    Returned =>
        /\ (fn_in.api_key /\ fn_in.image_ok) => ~fn_out[1].raised
        /\ PageFailed(fn_in) => /\ fn_out[1].error
                                /\ fn_out[1].confidence_score = "0.0"

\* every vision call of the page was answered with a text body
Answered(a) ==
    /\ a.api_key
    /\ a.image_ok
    /\ \A n \in 1..LastCall(a) : a.calls[n] = "response"
    /\ a.body.whole # "none"

\* C23: of an answered call, (1) a body that is a JSON object as a whole is
\* returned as parsed, whether or not it contains a ``` sequence; (2) a
\* body that is not JSON but wraps a JSON object in a fence yields the
\* interior; (3) when neither parses the result has an error key and
\* confidence 0; nothing is raised.
C23_ParseOrder ==
    (Returned /\ Answered(fn_in)) =>
        /\ ~fn_out[1].raised
        /\ fn_in.body.whole = "dict"
              => (~fn_out[1].error /\ ~fn_out[1].falsy)
        /\ (fn_in.body.whole = "invalid" /\ fn_in.body.marker /\ fn_in.body.inner = "dict")
              => (~fn_out[1].error /\ ~fn_out[1].falsy)
        /\ (fn_in.body.whole = "invalid" /\ fn_in.body.inner = "invalid")
              => (fn_out[1].error /\ fn_out[1].confidence_score = "0.0")

\* ------------------------------------------------------ the retry loop
\* The calls of the two page functions, one loop iteration per step.
\* frame holds the loop variable `attempt` (0-based), the number of
\* chat.completions.create calls issued so far and the time.sleep waits
\* taken so far, in seconds.
\* self.retry_delay (openai_service.py:28)
retry_delay == 2

\* variant: the same wait before every attempt
WaitTime_Constant(attempt) == retry_delay

\* openai_service.py:255: self.retry_delay * (2 ** attempt)
WaitTime(attempt) == retry_delay * 2^attempt

\* lines 211-214: create() is only reached with a client
Issued(a) == IF a.api_key THEN 1 ELSE 0

InitRetry ==
    /\ DbEmpty
    /\ fn_in \in ImageArgs
    /\ fn_in.image_ok
    /\ fn_in.function = "process_image"
         => \A n \in 2..max_retries : fn_in.calls[n] = fn_in.calls[1]
    /\ fn_out = <<>>
    /\ frame = [attempt |-> 0, calls |-> 0, sleeps |-> <<>>]

\* openai_service.py:210-250: the attempt gets a body it can use and returns
AttemptReturns ==
    /\ ~Returned
    /\ fn_in.function = "_process_image"
    /\ frame.attempt < max_retries                      \* range(self.max_retries)
    /\ Attempt(fn_in, frame.attempt + 1) = "return"
    /\ fn_out' = <<PageResult(FALSE, FALSE, FALSE, WorkerScore)>>
    /\ frame' = [frame EXCEPT !.calls = @ + Issued(fn_in)]
    /\ UNCHANGED <<db, fn_in>>

\* lines 252-257: any exception of an attempt that is not the last one:
\* time.sleep(wait_time), then the next iteration
AttemptRetries ==
    /\ ~Returned
    /\ fn_in.function = "_process_image"
    /\ frame.attempt < max_retries
    /\ Attempt(fn_in, frame.attempt + 1) = "retry"
    /\ frame.attempt < max_retries - 1
    /\ frame' = [attempt |-> frame.attempt + 1,
                 calls |-> frame.calls + Issued(fn_in),
                 sleeps |-> Append(frame.sleeps, WaitTime(frame.attempt))]
    /\ UNCHANGED <<db, fn_in, fn_out>>

\* lines 258-264: any exception of the last attempt: the error result
AttemptGivesUp ==
    /\ ~Returned
    /\ fn_in.function = "_process_image"
    /\ frame.attempt < max_retries
    /\ Attempt(fn_in, frame.attempt + 1) = "retry"
    /\ ~(frame.attempt < max_retries - 1)
    /\ fn_out' = <<PageResult(FALSE, TRUE, FALSE, WorkerScore)>>
    /\ frame' = [frame EXCEPT !.calls = @ + Issued(fn_in)]
    /\ UNCHANGED <<db, fn_in>>

\* pdf_service.process_image (lines 1264-1385): one create() call inside
\* one try, no loop
SingleCall ==
    /\ ~Returned
    /\ fn_in.function = "process_image"
    /\ fn_out' = <<process_image(fn_in)>>
    /\ frame' = [frame EXCEPT !.calls = @ + Issued(fn_in)]
    /\ UNCHANGED <<db, fn_in>>

NextRetry == AttemptReturns \/ AttemptRetries \/ AttemptGivesUp \/ SingleCall

SpecRetry == InitRetry /\ [][NextRetry]_vars

\* the failures the loop is meant to retry: time-outs and 5xx answers
Transient == {"timeout", "http_error"}

\* C21: a vision call that fails with a 4xx/auth error is the last call
\* issued for the page, no wait follows it and the call under study
\* returns a page-level error result; a further vision call is only
\* issued after a transient failure (time-out, 5xx).
C21_AuthFailureNotRetried ==
    \A n \in 1..frame.calls :
        /\ fn_in.calls[n] = "auth_error"
              => /\ n = frame.calls
                 /\ Len(frame.sleeps) < n
                 /\ Returned => fn_out[1].error
        /\ n > 1 => fn_in.calls[n - 1] \in Transient

\* C22: for one page OpenAIService._process_image issues at most 3 vision
\* calls, goes on only after failed attempts (it stops at the first
\* attempt that yields a parsed response), waits 2 s and then 4 s between
\* consecutive attempts, returns a page-level error result after the third
\* failed attempt, and is never stuck before it has returned.
C22_RetryBudget ==
    fn_in.function = "_process_image" =>
        /\ frame.calls <= 3
        /\ frame.attempt <= 2
        /\ Len(frame.sleeps) = frame.attempt
        /\ frame.sleeps = SubSeq(<<2, 4>>, 1, frame.attempt)
        /\ \A n \in 1..frame.attempt : Attempt(fn_in, n) = "retry"
        /\ Returned =>
              \/ /\ Attempt(fn_in, frame.attempt + 1) = "return"
                 /\ ~fn_out[1].error
              \/ /\ frame.attempt = 2
                 /\ Attempt(fn_in, 3) = "retry"
                 /\ fn_out[1].error
        /\ ~Returned => ENABLED NextRetry

\* three calls failed (time-out, 5xx, time-out) and the error result came
\* back after waits of 2 s and 4 s
C22_Witness ==
    /\ Returned
    /\ fn_in.function = "_process_image"
    /\ fn_in.calls = <<"timeout", "http_error", "timeout">>
    /\ frame.calls = 3
    /\ frame.sleeps = <<2, 4>>
    /\ fn_out[1].error

\* ----------------------------------------- services/extract.py: extract
MaxBlocks == 3

\* what call_gpt_4_1 does (extract.py:20-96): it raises (upload, run
\* time-out, run not completed, no message, unparsable text, no text
\* segment), or returns the parsed JSON of the reply:
\*   "result"      an object that fits the ExtractionResult schema
\*   "no_rows"     an object without the required rows field
\*   "bad_row"     rows holds an item that is not a LabRow
\*   "not_object"  a JSON value that is not an object
PrimaryRaises ==
    {"upload_failed", "timed_out", "run_failed", "no_message", "bad_json", "no_text"}
PrimaryReturns == {"result", "no_rows", "bad_row", "not_object"}

\* a Textract block: a LINE holding "key: value", a LINE without a colon,
\* a LINE whose Text is null, or a block of another type
BlockKinds == {"kv", "line", "null_text", "other"}

RECURSIVE SeqsUpTo(_, _)
SeqsUpTo(S, n) ==
    IF n = 0 THEN {<<>>}
    ELSE SeqsUpTo(S, n - 1) \cup {Append(q, x) : q \in SeqsUpTo(S, n - 1), x \in S}

\* what Textract does: the client or analyze_document raises, or a
\* response with these blocks arrives
TextractOutcomes ==
    {[raises |-> TRUE, blocks |-> <<>>]}
      \cup {[raises |-> FALSE, blocks |-> b] : b \in SeqsUpTo(BlockKinds, MaxBlocks)}

\* a raw dict offered to ExtractionResult.model_validate, and (valid) the
\* validated ExtractionResult
RawResult(sheet_name, rows, valid) ==
    [raised |-> FALSE, sheet_name |-> sheet_name, rows |-> rows, valid |-> valid]

Raised == [raised |-> TRUE, sheet_name |-> "", rows |-> 0, valid |-> FALSE]

\* rows appended by the loop of lines 112-124 over the blocks
RECURSIVE TextractRows(_)
TextractRows(blocks) ==
    IF blocks = <<>> THEN 0
    ELSE (IF Head(blocks) = "kv" THEN 1 ELSE 0) + TextractRows(Tail(blocks))

\* `":" in text` with text None raises TypeError inside the try
BlocksRaise(blocks) == \E x \in 1..Len(blocks) : blocks[x] = "null_text"

\* call_textract (lines 99-137): every exception ends in the one-row
\* "Textract Error" dict
call_textract(t) ==
    IF t.raises \/ BlocksRaise(t.blocks)
    THEN RawResult("Textract Error", 1, TRUE)
    ELSE RawResult("Textract Extraction", TextractRows(t.blocks), TRUE)

\* call_gpt_4_1: the parsed reply, or an exception
call_gpt_4_1(p) ==
    IF p \in PrimaryRaises THEN Raised
    ELSE RawResult("primary", 1, p = "result")

\* ExtractionResult.model_validate(raw): ValidationError unless raw fits
model_validate(raw) == IF raw.valid THEN raw ELSE Raised

\* variant: a reply that does not validate is not caught
extract_ValidationEscapes(a) ==
    LET raw == call_gpt_4_1(a.primary)
    IN IF raw.raised
       THEN model_validate(call_textract(a.textract))
       ELSE model_validate(raw)

\* extract (lines 140-171)
extract(a) ==
    LET raw == call_gpt_4_1(a.primary)
        first == IF raw.raised THEN Raised ELSE model_validate(raw)
    IN IF ~first.raised THEN first                              \* 150-153
       ELSE LET second == model_validate(call_textract(a.textract))   \* 157-159
            IN IF ~second.raised THEN second
               ELSE RawResult("Extraction Error", 2, TRUE)      \* 165-171

ExtractArgs == [primary : PrimaryRaises \cup PrimaryReturns, textract : TextractOutcomes]

InitExtract ==
    /\ DbEmpty
    /\ fn_in \in ExtractArgs
    /\ fn_out = <<>>
    /\ frame = <<>>

CallExtract ==
    /\ ~Returned
    /\ fn_out' = <<extract(fn_in)>>
    /\ UNCHANGED <<db, fn_in, frame>>

SpecExtract == InitExtract /\ [][CallExtract]_vars

PrimaryFailed(a) == a.primary # "result"
TextractFailed(a) == a.textract.raises \/ BlocksRaise(a.textract.blocks)
ErrorSheets == {"Textract Error", "Extraction Error"}

MaxQuestions == 2

\* a dict without the key
NoKey == -1

Mean(sum, n) == (2 * sum + n) \div (2 * n)

RECURSIVE SumConfidence(_)
SumConfidence(qs) ==
    IF qs = <<>> THEN 0 ELSE Head(qs).confidence + SumConfidence(Tail(qs))

RECURSIVE SumScores(_)
SumScores(xs) == IF xs = <<>> THEN 0 ELSE Head(xs) + SumScores(Tail(xs))

RECURSIVE Concat(_)
Concat(qss) == IF qss = <<>> THEN <<>> ELSE Head(qss) \o Concat(Tail(qss))

\* The JSON of one page as the model wrote it:
\*   error              the vision call failed (no JSON at all)
\*   questions          each with the page and confidence the model wrote
\*                      (NoKey: key absent; page 0: 0 or null)
\*   overall_confidence the model's own aggregate, or NoKey
\*   flat               the object has a string-valued key that is none of
\*                      the standard fields (a flat key/value answer)
Question(page, confidence) == [page |-> page, confidence |-> confidence]

PageJson(error, questions, oc, flat) ==
    [error |-> error, questions |-> questions, overall_confidence |-> oc, flat |-> flat]

\* process_image lines 1376-1385: the dict returned when the call failed
ApiErrorDict == PageJson(TRUE, <<Question(NoKey, NoKey)>>, NoKey, FALSE)

\* process_image lines 1343-1355, applied to a parsed page
NormalizeParsed(c, page_num) ==
    LET qs == [x \in 1..Len(c.questions) |->
                 Question(IF c.questions[x].page = NoKey THEN page_num
                          ELSE c.questions[x].page,
                          IF c.questions[x].confidence = NoKey THEN 95
                          ELSE c.questions[x].confidence)]
    IN IF c.error THEN ApiErrorDict
       ELSE PageJson(FALSE, qs,
                     IF qs # <<>> /\ c.overall_confidence \in {NoKey, 0}
                     THEN Mean(SumConfidence(qs), Len(qs))
                     ELSE c.overall_confidence,
                     c.flat)

\* `if "page" not in question: question["page"] = page_num`
\* (pdf_service.py:907-908 and 481-482)
SetPageIfAbsent(q, page_num) ==
    [q EXCEPT !.page = IF @ = NoKey THEN page_num ELSE @]

\* q.get("confidence", 0.0)
ConfidenceOrZero(q) == IF q.confidence = NoKey THEN 0 ELSE q.confidence

\* the row's confidence_score (pdf_service.py:918-925)
RowScore(r) ==
    IF r.error THEN 0
    ELSE IF r.overall_confidence # NoKey THEN r.overall_confidence
    ELSE IF r.questions = <<>> THEN 0
    ELSE Mean(SumScores([x \in 1..Len(r.questions) |-> ConfidenceOrZero(r.questions[x])]),
              Len(r.questions))

Combined(questions, oc, pages) ==
    [questions |-> questions, overall_confidence |-> oc, pages |-> pages]

\* _process_document_task lines 896-1062 over the process_image results
TaskCombine(pages) ==
    LET res == [i \in 1..Len(pages) |-> NormalizeParsed(pages[i], i)]
        rows == [i \in 1..Len(pages) |->
                   [res[i] EXCEPT !.questions =
                        [x \in 1..Len(@) |-> SetPageIfAbsent(@[x], i)]]]
        all_questions == Concat([i \in 1..Len(rows) |-> rows[i].questions])
        mean == Mean(SumScores([i \in 1..Len(rows) |-> RowScore(rows[i])]), Len(rows))
    IN IF all_questions # <<>> THEN Combined(all_questions, mean, rows)
       ELSE IF rows[1].flat                                     \* 1018-1044
            THEN Combined(<<Question(1, 95)>>, 95, rows)
       ELSE IF mean = 0 /\ rows[1].overall_confidence # NoKey   \* 1045-1050
            THEN Combined(<<>>, rows[1].overall_confidence, rows)
       ELSE Combined(<<>>, mean, rows)

\* variant: a page number the model wrote is replaced as well, by 0
SetPageIfFalsy_Resets(q, page_num) ==
    [q EXCEPT !.page = IF @ = NoKey THEN page_num ELSE 0]

\* `if "page" not in question or not question["page"]`
\* (openai_service.py:337-339)
SetPageIfFalsy(q, page_num) ==
    [q EXCEPT !.page = IF @ \in {NoKey, 0} THEN page_num ELSE @]

\* the pages _combine_results reads: neither an error result nor an empty
\* content (lines 300-309)
Contributes(c) == ~c.error

\* OpenAIService._combine_results (lines 266-380); the questions are
\* changed in place, so the page results change too.  The clean-up of
\* lines 373-378 turns an empty questions list into None (here <<>>)
CombineResults(pages) ==
    LET after == [i \in 1..Len(pages) |->
                    IF Contributes(pages[i])
                    THEN [pages[i] EXCEPT !.questions =
                            [x \in 1..Len(@) |-> SetPageIfFalsy(@[x], i)]]
                    ELSE pages[i]]
        used == {i \in 1..Len(pages) : Contributes(pages[i])}
        conf == {i \in used : pages[i].overall_confidence # NoKey}
        total == SumScores([i \in 1..Len(pages) |->
                              IF i \in conf THEN pages[i].overall_confidence ELSE 0])
    IN Combined(Concat([i \in 1..Len(pages) |->
                          IF i \in used THEN after[i].questions ELSE <<>>]),
                IF conf # {} THEN Mean(total, Cardinality(conf)) ELSE 80,
                after)

\* worker.py:131-147: the content stored for a page ({} for an error result)
WorkerRow(c) == IF c.error THEN PageJson(TRUE, <<>>, NoKey, FALSE) ELSE c

\* get_job_results lines 470-516 over rows without a page-0 row
SynthesizeCombined(rows) ==
    LET after == [i \in 1..Len(rows) |->
                    [rows[i] EXCEPT !.questions =
                        [x \in 1..Len(@) |-> SetPageIfAbsent(@[x], i)]]]
        all_questions == Concat([i \in 1..Len(after) |-> after[i].questions])
        known == {x \in 1..Len(all_questions) : all_questions[x].confidence # NoKey}
        total == SumScores([x \in 1..Len(all_questions) |->
                              ConfidenceOrZero(all_questions[x])])
    IN Combined(all_questions,
                IF known # {} THEN Mean(total, Cardinality(known)) ELSE 0,
                after)

\* the combined content a function builds from page results
Reconcile(function, pages) ==
    CASE function = "task" -> TaskCombine(pages)
      [] function = "_combine_results" -> CombineResults(pages)
      [] OTHER -> SynthesizeCombined(pages)

\* the page results each function is given, for the pages the model wrote:
\* the worker's rows are stored after process_pdf has run _combine_results
Given(function, pages) ==
    IF function = "get_job_results"
    THEN [i \in 1..Len(pages) |-> WorkerRow(CombineResults(pages).pages[i])]
    ELSE pages

\* the pages of a document of n pages as the model may write them: the
\* questions of a page are alike; the page a question carries is absent,
\* 0, the page's own number or a number beyond the document
ModelPages(n) ==
    {ps \in [1..n -> [error : BOOLEAN, count : 0..MaxQuestions,
                      page : {NoKey, 0, 1, n + 1}, confidence : {NoKey, 40},
                      overall_confidence : {NoKey, 60, 150}, flat : BOOLEAN]] :
        \A i \in 1..n :
            /\ ps[i].error => /\ ps[i].count = 0
                              /\ ps[i].overall_confidence = NoKey
                              /\ ~ps[i].flat
            /\ ps[i].count = 0 => (ps[i].page = NoKey /\ ps[i].confidence = NoKey)
            /\ ps[i].count > 0 => ~ps[i].flat}

\* "1" above stands for the page's own number
AsPageJson(ps) ==
    [i \in 1..Len(ps) |->
        PageJson(ps[i].error,
                 [x \in 1..ps[i].count |->
                    Question(IF ps[i].page = 1 THEN i ELSE ps[i].page, ps[i].confidence)],
                 ps[i].overall_confidence, ps[i].flat)]

CombineFunctions == {"task", "_combine_results", "get_job_results"}

InitCombine ==
    /\ DbEmpty
    /\ \E n \in 1..MaxPages, f \in CombineFunctions :
         \E ps \in ModelPages(n) :
            fn_in = [function |-> f, pages |-> AsPageJson(ps)]
    /\ fn_out = <<>>
    /\ frame = <<>>

CallCombine ==
    /\ ~Returned
    /\ fn_out' = <<Reconcile(fn_in.function, Given(fn_in.function, fn_in.pages))>>
    /\ UNCHANGED <<db, fn_in, frame>>

SpecCombine == InitCombine /\ [][CallCombine]_vars

\* every page extraction succeeded
AllPagesSucceeded(a) == \A i \in 1..Len(a.pages) : ~a.pages[i].error

RECURSIVE CountQuestions(_)
CountQuestions(pages) ==
    IF pages = <<>> THEN 0 ELSE Len(Head(pages).questions) + CountQuestions(Tail(pages))

\* C16: when every page succeeded, the combined questions are as many as
\* the pages' questions together and each carries a page in 1..N.
C16_QuestionsKeptWithPages ==
    (Returned /\ AllPagesSucceeded(fn_in)) =>
        /\ Len(fn_out[1].questions) = CountQuestions(fn_in.pages)
        /\ \A x \in 1..Len(fn_out[1].questions) :
              fn_out[1].questions[x].page \in 1..Len(fn_in.pages)

\* C17: the combined overall_confidence lies in [0, 1] and is 0.8 when
\* the combined content has no question.
C17_ConfidenceBounds ==
    Returned =>
        /\ fn_out[1].overall_confidence \in 0..100
        /\ fn_out[1].questions = <<>> => fn_out[1].overall_confidence = 80

\* the confidence_score stored on the row of a page: computed from the
\* content by the task (pdf_service.py:918-931), the literal 0.9 in the
\* worker (worker.py:145)
PageScore(function, row) == IF function = "task" THEN RowScore(row) ELSE 90

\* the pages whose extraction did not fail
NonErrorPages(pages) == SelectSeq(pages, LAMBDA c : ~c.error)

\* C24: in a document with error pages and at least one good page, the
\* combined record has the questions of the good pages only and the
\* confidence it would have without the error pages, and every error page
\* is still listed as a page record, with a stored confidence of 0.
C24_ErrorPagesExcluded ==
    (/\ Returned
     /\ ~AllPagesSucceeded(fn_in)
     /\ NonErrorPages(fn_in.pages) # <<>>) =>
        LET f == fn_in.function
            alone == Reconcile(f, Given(f, NonErrorPages(fn_in.pages)))
        IN /\ Len(fn_out[1].questions) = Len(alone.questions)
           /\ fn_out[1].overall_confidence = alone.overall_confidence
           /\ Len(fn_out[1].pages) = Len(fn_in.pages)
           /\ \A i \in 1..Len(fn_in.pages) :
                 fn_in.pages[i].error => PageScore(f, fn_out[1].pages[i]) = 0

\* C20: running _combine_results, or the synthesis on read, again over the
\* page results the first run left behind (with the page numbers it wrote
\* into the questions) gives the same combined content and changes the
\* page results no further.
C20_ReconcileIdempotent ==
    (Returned /\ fn_in.function \in {"_combine_results", "get_job_results"}) =>
        LET again == Reconcile(fn_in.function, fn_out[1].pages)
        IN /\ again.questions = fn_out[1].questions
           /\ again.overall_confidence = fn_out[1].overall_confidence
           /\ again.pages = fn_out[1].pages

\* the first run wrote a page number into a question and kept one the
\* model had written
C20_Witness ==
    /\ Returned
    /\ fn_in.function = "_combine_results"
    /\ Len(fn_in.pages) = 2
    /\ fn_in.pages[1].questions # <<>>
    /\ fn_in.pages[1].questions[1].page = NoKey
    /\ fn_in.pages[2].questions # <<>>
    /\ fn_in.pages[2].questions[1].page = 3
    /\ fn_out[1].pages # fn_in.pages
    /\ fn_out[1].questions[1].page = 1

\* ------------------------------------ _combine_results: the metadata
\* The fold of OpenAIService._combine_results over the page results, one
\* page per step, for the metadata field.  A dict is a function from the
\* keys to the value stored, "absent" for a key the dict does not have.
\* frame holds the index of the next page and combined_data["metadata"].
MetaKeys == {"patient", "date"}
MetaValues == {"absent", "", "Ann", "Bob"}

EmptyDict == [k \in MetaKeys |-> "absent"]

\* A page result: an error result (skipped, lines 300-302), or a content
\* with or without a metadata dict
MetaPages ==
    {pg \in [error : BOOLEAN, has_metadata : BOOLEAN, metadata : [MetaKeys -> MetaValues]] :
        /\ pg.error => ~pg.has_metadata
        /\ ~pg.has_metadata => pg.metadata = EmptyDict}

\* dict.update (line 324)
Update(d, other) ==
    [k \in MetaKeys |-> IF other[k] # "absent" THEN other[k] ELSE d[k]]

InitMetadata ==
    /\ DbEmpty
    /\ \E n \in 1..MaxPages : fn_in \in [pages : [1..n -> MetaPages]]
    /\ fn_out = <<>>
    /\ frame = [next |-> 1, metadata |-> EmptyDict]           \* line 283

\* lines 299-302, 323: a page without a metadata dict leaves it alone
PageWithoutMetadata ==
    /\ ~Returned
    /\ frame.next <= Len(fn_in.pages)
    /\ ~fn_in.pages[frame.next].has_metadata
    /\ frame' = [frame EXCEPT !.next = @ + 1]
    /\ UNCHANGED <<db, fn_in, fn_out>>

\* lines 322-324: combined_data["metadata"].update(page_content["metadata"])
PageMetadata ==
    /\ ~Returned
    /\ frame.next <= Len(fn_in.pages)
    /\ fn_in.pages[frame.next].has_metadata
    /\ frame' = [next |-> frame.next + 1,
                 metadata |-> Update(frame.metadata, fn_in.pages[frame.next].metadata)]
    /\ UNCHANGED <<db, fn_in, fn_out>>

\* lines 372-380: an empty dict becomes None (here EmptyDict), and return
ReturnCombined ==
    /\ ~Returned
    /\ frame.next > Len(fn_in.pages)
    /\ fn_out' = <<[metadata |-> frame.metadata]>>
    /\ UNCHANGED <<db, fn_in, frame>>

NextMetadata == PageWithoutMetadata \/ PageMetadata \/ ReturnCombined

SpecMetadata == InitMetadata /\ [][NextMetadata]_vars

\* C27: folding the pages in page order, a metadata key that holds a
\* non-empty value is changed by no later page; a page only sets keys that
\* are still missing or empty.
C27_FirstNonEmptyWins ==
    [][\A k \in MetaKeys :
         frame.metadata[k] \notin {"absent", ""}
            => frame'.metadata[k] = frame.metadata[k]]_vars

\* ------------------------------------- simple_pdf_server.process_image
\* The page is sent twice, as the "standard" and the "form_optimized"
\* image (simple_pdf_server.py:310-313), and the two answers are merged
\* into combined_results, one loop iteration per step.  frame holds the
\* index of the next variant and combined_results (<<>> for None, else
\* <<questions>>).
MaxVariantQuestions == 1

\* the generic answers the merge treats like an empty one (lines 466-472)
Placeholders ==
    {"[Faint handwriting detected - please check the image]",
     "[Handwritten response present but too faint to read accurately - please check original document]",
     "No answer provided"}

\* `new_ans and new_ans not in [...]`
Informative(answer) == answer # "" /\ answer \notin Placeholders

\* q["question"].lower().strip(), for the question texts of the model
QText(text) ==
    CASE text \in {"Name", "name "} -> "name"
      [] text = "Age" -> "age"

VariantQuestions ==
    [question : {"Name", "name ", "Age"},
     answer : {"", "No answer provided", "Hypertension", "Diabetes"},
     confidence : {NoKey, 40, 90}]

\* One variant's answer: how its body parsed ("direct": json.loads of the
\* body; "fenced": the interior of a code block; "skip": not JSON, a
\* status other than 200 or an exception: `continue`) and its questions
Variants ==
    {v \in [path : {"direct", "fenced", "skip"},
            questions : SeqsUpTo(VariantQuestions, MaxVariantQuestions)] :
        v.path = "skip" => v.questions = <<>>}

\* lines 443-450: seen_questions[q_text] = i for the questions of
\* combined_results, a later question overwriting an earlier one; 0: unseen
SeenIndex(questions, q_text) ==
    LET hits == {i \in 1..Len(questions) : QText(questions[i].question) = q_text}
    IN IF hits = {} THEN 0 ELSE CHOOSE i \in hits : \A k \in hits : k <= i

\* lines 454-481: one question of the new variant merged into the list
MergeQuestion(questions, new_q) ==
    LET idx == SeenIndex(questions, QText(new_q.question))
    IN IF idx = 0 THEN Append(questions, new_q)                  \* 477-481
       ELSE IF ~Informative(questions[idx].answer) /\ Informative(new_q.answer)
            THEN [questions EXCEPT ![idx].answer = new_q.answer,
                                   ![idx].confidence =
                                       IF new_q.confidence = NoKey THEN 50
                                       ELSE new_q.confidence]    \* 474-475
       ELSE questions

RECURSIVE MergeDirect(_, _)
MergeDirect(questions, new) ==
    IF new = <<>> THEN questions
    ELSE MergeDirect(MergeQuestion(questions, Head(new)), Tail(new))

InitMerge ==
    /\ DbEmpty
    /\ fn_in \in [variants : [1..2 -> Variants]]
    /\ fn_out = <<>>
    /\ frame = [next |-> 1, combined_results |-> <<>>]

\* a variant that did not parse: `continue` (lines 491-493, 511-517)
VariantSkipped ==
    /\ ~Returned
    /\ frame.next <= 2
    /\ fn_in.variants[frame.next].path = "skip"
    /\ frame' = [frame EXCEPT !.next = @ + 1]
    /\ UNCHANGED <<db, fn_in, fn_out>>

\* lines 438-439 and 502-503: the first variant that parsed becomes
\* combined_results
VariantFirst ==
    /\ ~Returned
    /\ frame.next <= 2
    /\ fn_in.variants[frame.next].path # "skip"
    /\ frame.combined_results = <<>>
    /\ frame' = [next |-> frame.next + 1,
                 combined_results |-> <<fn_in.variants[frame.next].questions>>]
    /\ UNCHANGED <<db, fn_in, fn_out>>

\* lines 440-481: a later variant whose body parsed as a whole is merged
\* question by question
VariantMergedDirect ==
    /\ ~Returned
    /\ frame.next <= 2
    /\ fn_in.variants[frame.next].path = "direct"
    /\ frame.combined_results # <<>>
    /\ frame' = [next |-> frame.next + 1,
                 combined_results |->
                     <<MergeDirect(frame.combined_results[1],
                                   fn_in.variants[frame.next].questions)>>]
    /\ UNCHANGED <<db, fn_in, fn_out>>

\* lines 504-509: a later variant that parsed from a code block is
\* appended ("Simple merge")
VariantMergedFenced ==
    /\ ~Returned
    /\ frame.next <= 2
    /\ fn_in.variants[frame.next].path = "fenced"
    /\ frame.combined_results # <<>>
    /\ frame' = [next |-> frame.next + 1,
                 combined_results |->
                     <<frame.combined_results[1] \o fn_in.variants[frame.next].questions>>]
    /\ UNCHANGED <<db, fn_in, fn_out>>

\* lines 520-523: after the loop; the error dict when nothing parsed
ReturnMerged ==
    /\ ~Returned
    /\ frame.next > 2
    /\ fn_out' = <<IF frame.combined_results = <<>>
                   THEN [error |-> TRUE, questions |-> <<>>]
                   ELSE [error |-> FALSE, questions |-> frame.combined_results[1]]>>
    /\ UNCHANGED <<db, fn_in, frame>>

NextMerge ==
    \/ VariantSkipped
    \/ VariantFirst
    \/ VariantMergedDirect
    \/ VariantMergedFenced
    \/ ReturnMerged

SpecMerge == InitMerge /\ [][NextMerge]_vars

\* both variants parsed and each holds one question, with the same text
SameQuestion(a) ==
    /\ \A v \in 1..2 : a.variants[v].path # "skip" /\ Len(a.variants[v].questions) = 1
    /\ a.variants[1].questions[1].question = a.variants[2].questions[1].question

\* C25: when both variants return the same question text and exactly one
\* of the two answers is informative, the merged result holds that
\* question with the informative answer and with no other answer,
\* whichever variant came first and however each body parsed.
C25_InformativeAnswerKept ==
    (/\ Returned
     /\ SameQuestion(fn_in)
     /\ Informative(fn_in.variants[1].questions[1].answer)
            # Informative(fn_in.variants[2].questions[1].answer)) =>
        LET a1 == fn_in.variants[1].questions[1].answer
            a2 == fn_in.variants[2].questions[1].answer
            kept == IF Informative(a1) THEN a1 ELSE a2
        IN /\ fn_out[1].questions # <<>>
           /\ \A x \in 1..Len(fn_out[1].questions) : fn_out[1].questions[x].answer = kept

Max(a, b) == IF a > b THEN a ELSE b

\* C26: when both variants return the same question text and both answers
\* are informative, the merged result holds that question once, with the
\* first variant's answer and the higher of the two confidences.
C26_FirstAnswerHigherConfidence ==
    (/\ Returned
     /\ SameQuestion(fn_in)
     /\ Informative(fn_in.variants[1].questions[1].answer)
     /\ Informative(fn_in.variants[2].questions[1].answer)
     /\ fn_in.variants[1].questions[1].confidence # NoKey
     /\ fn_in.variants[2].questions[1].confidence # NoKey) =>
        /\ Len(fn_out[1].questions) = 1
        /\ fn_out[1].questions[1].answer = fn_in.variants[1].questions[1].answer
        /\ fn_out[1].questions[1].confidence =
              Max(fn_in.variants[1].questions[1].confidence,
                  fn_in.variants[2].questions[1].confidence)

\* ----------------------------------------------------- status polling
\* The status endpoints are studied over every content of the job table:
\* Init draws the rows, each step is one request (fn_in) and its response
\* (fn_out).  No endpoint adds, changes or commits a row.
Statuses == {"pending", "processing", "completed", "failed"}

JobRows ==
    {r \in [document_id : Docs, status : Statuses, pages_processed : 0..MaxPages,
            total_pages : 0..MaxPages, error_message : {"none"}] :
        r.pages_processed <= r.total_pages}

PollEndpoints ==
    {"handwriting.get_job_status",       \* routers/handwriting.py:174-217
     "main.get_job_status",              \* main.py:278-311
     "get_document_status",              \* routers/handwriting.py:577-611
     "main.get_document"}                \* main.py:176-225

InitPoll ==
    /\ api_key = "valid"
    /\ app = [d \in Docs |-> "service"]
    /\ pdf_pages = [d \in Docs |-> 0]
    /\ documents \in [Docs -> [status : Statuses, total_pages : {0}]]
    /\ jobs \in SeqsUpTo(JobRows, MaxJobs)
    /\ results = [j \in 1..Len(jobs) |-> <<>>]
    /\ tasks = <<>>
    /\ active_jobs = {}
    /\ registering = 0
    /\ reply = [doc |-> 0, status |-> "none"]
    /\ fn_in = <<>>
    /\ fn_out = <<>>
    /\ frame = <<>>

StatusResponse(code, job, status, pp, tp) ==
    [code |-> code, job |-> job, status |-> status,
     pages_processed |-> pp, total_pages |-> tp]

\* variant: the progress reported is the page total
JobInfo_ReportsTotal(j) ==
    StatusResponse(200, j, jobs[j].status, jobs[j].total_pages, jobs[j].total_pages)

\* the dict built from a job row (handwriting.py:196-205, main.py:297-306)
JobInfo(j) ==
    StatusResponse(200, j, jobs[j].status, jobs[j].pages_processed, jobs[j].total_pages)

\* `.order_by(started_at.desc()).first()`: the job of the document that
\* was created last, 0 when it has none
LatestJob(d) ==
    LET own == {j \in JobIds : jobs[j].document_id = d}
    IN IF own = {} THEN 0 ELSE CHOOSE j \in own : \A k \in own : k <= j

\* the response to a request for job id or document id
PollResponse(endpoint, id) ==
    CASE endpoint = "handwriting.get_job_status" ->
           IF id \in JobIds THEN JobInfo(id)
           ELSE StatusResponse(200, 0, "completed", 1, 1)       \* lines 209-217
      [] endpoint = "main.get_job_status" ->
           IF id \in JobIds THEN JobInfo(id)
           ELSE StatusResponse(404, 0, "none", 0, 0)
      [] OTHER ->
           IF LatestJob(id) = 0 THEN StatusResponse(200, 0, "none", 0, 0)
           ELSE JobInfo(LatestJob(id))

\* one request to a job endpoint, for a stored or an unknown job id
PollJob ==
    \E e \in {"handwriting.get_job_status", "main.get_job_status"},
       j \in 1..(Len(jobs) + 1) :
        /\ fn_in' = [endpoint |-> e, id |-> j]
        /\ fn_out' = <<PollResponse(e, j)>>
        /\ UNCHANGED <<db, frame>>

\* one request to a document endpoint
PollDocument ==
    \E e \in {"get_document_status", "main.get_document"}, d \in Docs :
        /\ fn_in' = [endpoint |-> e, id |-> d]
        /\ fn_out' = <<PollResponse(e, d)>>
        /\ UNCHANGED <<db, frame>>

NextPoll == PollJob \/ PollDocument

SpecPoll == InitPoll /\ [][NextPoll]_vars

\* the job a response is about
PolledJob ==
    IF fn_in.endpoint \in {"handwriting.get_job_status", "main.get_job_status"}
    THEN IF fn_in.id \in JobIds THEN fn_in.id ELSE 0
    ELSE LatestJob(fn_in.id)

\* the response carries the stored status, pages_processed and total_pages
\* of the job it is about
ReturnsStored ==
    (Returned /\ PolledJob # 0) =>
        /\ fn_out[1].status = jobs[PolledJob].status
        /\ fn_out[1].pages_processed = jobs[PolledJob].pages_processed
        /\ fn_out[1].total_pages = jobs[PolledJob].total_pages

\* C18: a status request, in any state of the job and after any number of
\* earlier requests, changes no job, document or result row, and its
\* response carries the job's stored status, pages_processed and
\* total_pages.
C18_PollIsPureRead ==
    [][/\ jobs' = jobs
       /\ documents' = documents
       /\ results' = results
       /\ ReturnsStored']_vars

\* a job in the middle of its pages has been polled
C18_Witness ==
    /\ Returned
    /\ PolledJob # 0
    /\ jobs[PolledJob].status = "processing"
    /\ jobs[PolledJob].pages_processed = 1
    /\ jobs[PolledJob].total_pages = 2
    /\ fn_out[1].pages_processed = 1

====
